---- MODULE Spec2Model ----
(***************************************************************************)
(* Wire codec of the handshake and keepalive messages of the Bitcoin P2P   *)
(* protocol (src/bitcoin/network/message_network.rs) and of the composite  *)
(* derivation impl_serializable (src/bitcoin/macros.rs).                   *)
(*                                                                         *)
(* Bytes are naturals in 0..255, byte streams are sequences of bytes.      *)
(* Fixed-width integers are kept at their width as sequences of 16-bit     *)
(* limbs, most significant limb first (a u32 is 2 limbs, a u64 is 4), so   *)
(* that no 64-bit value is ever folded into a machine integer.  Signed     *)
(* integers are their two's-complement bit pattern.                        *)
(***************************************************************************)
EXTENDS Integers, Sequences, FiniteSets, TLC

VARIABLES a, b, phase, out, stream, loaded, results, iter, drained, created, args

vars == <<a, b, phase, out, stream, loaded, results, iter, drained, created, args>>

(***************************************************************************)
(* Bounds of the model.                                                    *)
(***************************************************************************)
\* successive deserialize calls made on one shared cursor
MaxDecodes == 2
\* next() calls made on a SerializeIter after it first returned None
MaxExhaustedCalls == 1

(***************************************************************************)
(* Option and IoResult.                                                    *)
(***************************************************************************)
None == [some |-> FALSE]
Some(x) == [some |-> TRUE, v |-> x]

Ok(x) == [ok |-> TRUE, val |-> x]
Err(e) == [ok |-> FALSE, err |-> e]

\* The error a primitive decoder raises when the iterator runs out.
EndOfFile == [kind |-> "EndOfFile", detail |-> None]

\* util::misc::prepend_err: the error's detail becomes "<s>: <old detail>";
\* the detail is kept as the path of field names.
prepend_err(s, res) ==
  IF res.ok THEN res
  ELSE Err([kind |-> res.err.kind,
            detail |-> Some(<<s>> \o (IF res.err.detail.some
                                       THEN res.err.detail.v ELSE <<>>))])

\* A decoder's outcome: the IoResult and what is left of the iterator.
Dec(res, rest) == [res |-> res, rest |-> rest]

(***************************************************************************)
(* Primitive codecs (network::serialize).                                  *)
(***************************************************************************)
\* the limbs of a natural below 2^31, at a width of n limbs
RECURSIVE Limbs(_, _)
Limbs(n, x) == IF n = 0 THEN <<>> ELSE Append(Limbs(n - 1, x \div 65536), x % 65536)

\* limbs compared as unsigned integers of equal width
RECURSIVE LimbsGE(_, _)
LimbsGE(x, y) ==
  IF x = <<>> THEN TRUE
  ELSE IF Head(x) # Head(y) THEN Head(x) > Head(y)
  ELSE LimbsGE(Tail(x), Tail(y))

\* little-endian bytes of a fixed-width integer
RECURSIVE IntSerialize(_)
IntSerialize(limbs) ==
  IF limbs = <<>> THEN <<>>
  ELSE IntSerialize(Tail(limbs)) \o <<Head(limbs) % 256, Head(limbs) \div 256>>

\* reads n limbs (2n bytes), least significant byte first
IntDeserialize(n, s) ==
  IF Len(s) < 2 * n THEN Dec(Err(EndOfFile), <<>>)
  ELSE Dec(Ok([k \in 1..n |-> s[2 * (n - k) + 1] + 256 * s[2 * (n - k) + 2]]),
           SubSeq(s, 2 * n + 1, Len(s)))

BoolSerialize(x) == IF x THEN <<1>> ELSE <<0>>

BoolDeserialize(s) ==
  IF s = <<>> THEN Dec(Err(EndOfFile), <<>>)
  ELSE Dec(Ok(Head(s) # 0), Tail(s))

\* variable-length integer: one byte below 0xFD, else a marker and 2, 4 or 8
\* little-endian bytes
VarIntSerialize(n) ==
  IF n < 253 THEN <<n>>
  ELSE IF n < 65536 THEN <<253, n % 256, n \div 256>>
  ELSE <<254, n % 256, (n \div 256) % 256, (n \div 65536) % 256, n \div 16777216>>

\* A length of 2^16 or more exceeds every stream of the model; it is reported
\* as 65536, which is enough to decide that the read runs out.
VarIntDeserialize(s) ==
  IF s = <<>> THEN Dec(Err(EndOfFile), <<>>)
  ELSE LET w == CASE Head(s) = 253 -> 2 [] Head(s) = 254 -> 4
                  [] Head(s) = 255 -> 8 [] OTHER -> 0
           t == Tail(s)
       IN IF w = 0 THEN Dec(Ok(Head(s)), t)
          ELSE IF Len(t) < w THEN Dec(Err(EndOfFile), <<>>)
          ELSE Dec(Ok(IF \E i \in 3..w : t[i] # 0 THEN 65536
                      ELSE t[1] + 256 * t[2]),
                   SubSeq(t, w + 1, Len(t)))

\* a string is its length as a varint, then its bytes
StringSerialize(str) == VarIntSerialize(Len(str)) \o str

StringDeserialize(s) ==
  LET n == VarIntDeserialize(s)
  IN IF ~n.res.ok THEN n
     ELSE IF Len(n.rest) < n.res.val THEN Dec(Err(EndOfFile), <<>>)
     ELSE Dec(Ok(SubSeq(n.rest, 1, n.res.val)),
              SubSeq(n.rest, n.res.val + 1, Len(n.rest)))

\* network::address::Address: services (u64, little-endian), 16 raw address
\* bytes, port (u16, big-endian): 26 bytes
AddressSerialize(ad) ==
  IntSerialize(ad.services) \o ad.address \o <<ad.port \div 256, ad.port % 256>>

AddressDeserialize(s) ==
  IF Len(s) < 26 THEN Dec(Err(EndOfFile), <<>>)
  ELSE Dec(Ok([services |-> IntDeserialize(4, SubSeq(s, 1, 8)).res.val,
               address |-> SubSeq(s, 9, 24),
               port |-> 256 * s[25] + s[26]]),
           SubSeq(s, 27, Len(s)))

\* Serializable::serialize of a field, by the field's type
PrimSerialize(ty, x) ==
  CASE ty \in {"u32", "i32", "u64", "i64"} -> IntSerialize(x)
    [] ty = "bool" -> BoolSerialize(x)
    [] ty = "String" -> StringSerialize(x)
    [] ty = "Address" -> AddressSerialize(x)

\* Serializable::deserialize of a field, by the field's type
PrimDeserialize(ty, s) ==
  CASE ty \in {"u32", "i32"} -> IntDeserialize(2, s)
    [] ty \in {"u64", "i64"} -> IntDeserialize(4, s)
    [] ty = "bool" -> BoolDeserialize(s)
    [] ty = "String" -> StringDeserialize(s)
    [] ty = "Address" -> AddressDeserialize(s)

(***************************************************************************)
(* Composite derivation: impl_serializable!(thing, field, ...).            *)
(***************************************************************************)
\* the structs the macro is instantiated for, with their declared fields
StructFields(thing) ==
  CASE thing = "PingMessage" -> <<[name |-> "nonce", ty |-> "u64"]>>
    [] thing = "PongMessage" -> <<[name |-> "nonce", ty |-> "u64"]>>

\* $( ret.extend(self.$field.serialize().move_iter()); )+
RECURSIVE ExtendFields(_, _, _)
ExtendFields(ret, fields, self) ==
  IF fields = <<>> THEN ret
  ELSE ExtendFields(ret \o PrimSerialize(Head(fields).ty, self[Head(fields).name]),
                    Tail(fields), self)

\* the first declared field left out
impl_serializable_serialize_dropfirst(thing, self) ==
  ExtendFields(<<>>, Tail(StructFields(thing)), self)

impl_serializable_serialize(thing, self) ==
  ExtendFields(<<>>, StructFields(thing), self)

\* $( $field: try!(prepend_err(stringify!($field), deserialize(iter.by_ref()))), )+
\* acc is the struct built so far; the first failing field ends the decode.
RECURSIVE DecodeFields(_, _, _)
DecodeFields(acc, fields, s) ==
  IF fields = <<>> THEN Dec(Ok(acc), s)
  ELSE LET f == Head(fields)
           d == PrimDeserialize(f.ty, s)
           r == prepend_err(f.name, d.res)
       IN IF ~r.ok THEN Dec(r, d.rest)
          ELSE DecodeFields([x \in DOMAIN acc \cup {f.name} |->
                               IF x = f.name THEN r.val ELSE acc[x]],
                            Tail(fields), d.rest)

impl_serializable_deserialize(thing, s) ==
  DecodeFields([type |-> thing], StructFields(thing), s)

\* the field references handed to the lazy producer: &self.$field as &Serializable
FieldRefs(fields, self) ==
  [i \in 1..Len(fields) |-> [ty |-> fields[i].ty, v |-> self[fields[i].name]]]

\* the eager bytes handed out as well as the field references
impl_serializable_serialize_iter_eager(thing, self) ==
  [data_iter |-> Some(impl_serializable_serialize(thing, self)),
   sub_iter_iter |-> FieldRefs(StructFields(thing), self),
   sub_iter |-> None,
   sub_started |-> FALSE]

impl_serializable_serialize_iter(thing, self) ==
  [data_iter |-> None,
   sub_iter_iter |-> FieldRefs(StructFields(thing), self),
   sub_iter |-> None,
   sub_started |-> FALSE]

(***************************************************************************)
(* SerializeIter (network::serialize).                                     *)
(***************************************************************************)
\* Serializable::serialize_iter, the trait's default: the eager bytes, no
\* children.  Every primitive and VersionMessage use it.
default_serialize_iter(bytes) ==
  [data_iter |-> Some(bytes),
   sub_iter_iter |-> <<>>,
   sub_iter |-> None,
   sub_started |-> FALSE]

\* sub_iter_iter.next().map(|obj| box obj.serialize_iter())
NextSubIter(it) ==
  IF it.sub_iter_iter = <<>> THEN [it EXCEPT !.sub_iter = None]
  ELSE [it EXCEPT !.sub_iter =
                    Some(default_serialize_iter(
                           PrimSerialize(Head(it.sub_iter_iter).ty,
                                         Head(it.sub_iter_iter).v))),
                  !.sub_iter_iter = Tail(it.sub_iter_iter)]

\* Iterator::next of SerializeIter: [ret |-> Option<u8>, it |-> the iterator
\* after the call].  The data iterator first, then each child in turn.
RECURSIVE SerializeIter_next(_)
RECURSIVE DrainChildren(_)
DrainChildren(it) ==
  IF ~it.sub_iter.some THEN [ret |-> None, it |-> it]
  ELSE LET r == SerializeIter_next(it.sub_iter.v)
       IN IF r.ret.some THEN [ret |-> r.ret, it |-> [it EXCEPT !.sub_iter = Some(r.it)]]
          ELSE DrainChildren(NextSubIter(it))

SerializeIter_next(it) ==
  LET fromData == it.data_iter.some /\ it.data_iter.v # <<>>
      it1 == IF ~it.data_iter.some THEN it
             ELSE IF fromData THEN [it EXCEPT !.data_iter = Some(Tail(it.data_iter.v))]
             ELSE [it EXCEPT !.data_iter = None]
      it2 == IF ~fromData /\ ~it1.sub_started
             THEN NextSubIter([it1 EXCEPT !.sub_started = TRUE])
             ELSE it1
  IN IF fromData THEN [ret |-> Some(Head(it.data_iter.v)), it |-> it2]
     ELSE DrainChildren(it2)

(***************************************************************************)
(* The messages (network::message_network).                                *)
(***************************************************************************)
\* network::constants::PROTOCOL_VERSION
PROTOCOL_VERSION == 70001

\* the first protocol version whose version message carries the relay byte
RelayVersion == 70001

\* the fields of VersionMessage, in the order its codec visits them
VersionFields ==
  << [name |-> "version", ty |-> "u32"],
     [name |-> "services", ty |-> "u64"],
     [name |-> "timestamp", ty |-> "i64"],
     [name |-> "receiver", ty |-> "Address"],
     [name |-> "sender", ty |-> "Address"],
     [name |-> "nonce", ty |-> "u64"],
     [name |-> "user_agent", ty |-> "String"],
     [name |-> "start_height", ty |-> "i32"],
     [name |-> "relay", ty |-> "bool"] >>

\* the sender's result matched before the receiver's
VersionMessage_new_sendfirst(timestamp, socket, nonce, start_height) ==
  LET recv_addr == socket.receiver_address
      send_addr == socket.sender_address
  IN IF ~send_addr.ok THEN Err(send_addr.err)
     ELSE IF ~recv_addr.ok THEN Err(recv_addr.err)
     ELSE Ok([type |-> "VersionMessage",
              version |-> Limbs(2, PROTOCOL_VERSION),
              services |-> socket.services,
              timestamp |-> timestamp,
              receiver |-> recv_addr.val,
              sender |-> send_addr.val,
              nonce |-> nonce,
              user_agent |-> socket.user_agent,
              start_height |-> start_height,
              relay |-> FALSE])

\* VersionMessage::new
VersionMessage_new(timestamp, socket, nonce, start_height) ==
  LET recv_addr == socket.receiver_address
      send_addr == socket.sender_address
  IN IF ~recv_addr.ok THEN Err(recv_addr.err)
     ELSE IF ~send_addr.ok THEN Err(send_addr.err)
     ELSE Ok([type |-> "VersionMessage",
              version |-> Limbs(2, PROTOCOL_VERSION),
              services |-> socket.services,
              timestamp |-> timestamp,
              receiver |-> recv_addr.val,
              sender |-> send_addr.val,
              nonce |-> nonce,
              user_agent |-> socket.user_agent,
              start_height |-> start_height,
              relay |-> FALSE])

\* the relay byte gated on version > 70001
VersionMessage_serialize_gt(self) ==
  LET rv == IntSerialize(self.version) \o IntSerialize(self.services)
              \o IntSerialize(self.timestamp) \o AddressSerialize(self.receiver)
              \o AddressSerialize(self.sender) \o IntSerialize(self.nonce)
              \o StringSerialize(self.user_agent) \o IntSerialize(self.start_height)
  IN IF LimbsGE(self.version, Limbs(2, RelayVersion + 1))
     THEN rv \o BoolSerialize(self.relay)
     ELSE rv

\* VersionMessage::serialize
VersionMessage_serialize(self) ==
  LET rv == IntSerialize(self.version) \o IntSerialize(self.services)
              \o IntSerialize(self.timestamp) \o AddressSerialize(self.receiver)
              \o AddressSerialize(self.sender) \o IntSerialize(self.nonce)
              \o StringSerialize(self.user_agent) \o IntSerialize(self.start_height)
  IN IF LimbsGE(self.version, Limbs(2, RelayVersion))
     THEN rv \o BoolSerialize(self.relay)
     ELSE rv

\* field: try!(Serializable::deserialize(iter.by_ref())), one field after the
\* other; a failing field's error is returned as it is.
RECURSIVE TryFields(_, _, _)
TryFields(acc, fields, s) ==
  IF fields = <<>> THEN Dec(Ok(acc), s)
  ELSE LET f == Head(fields)
           d == PrimDeserialize(f.ty, s)
       IN IF ~d.res.ok THEN d
          ELSE TryFields([x \in DOMAIN acc \cup {f.name} |->
                            IF x = f.name THEN d.res.val ELSE acc[x]],
                         Tail(fields), d.rest)

\* VersionMessage::deserialize: all nine fields, relay included, at any version
VersionMessage_deserialize(s) ==
  TryFields([type |-> "VersionMessage"], VersionFields, s)

\* VersionAckMessage::serialize
VersionAckMessage_serialize(self) == <<>>

\* one byte taken from the iterator
VersionAckMessage_deserialize_eat(s) ==
  Dec(Ok([type |-> "VersionAckMessage"]), IF s = <<>> THEN s ELSE Tail(s))

\* VersionAckMessage::deserialize: the iterator is not touched
VersionAckMessage_deserialize(s) == Dec(Ok([type |-> "VersionAckMessage"]), s)

MessageTypes == {"VersionMessage", "VersionAckMessage", "PingMessage", "PongMessage"}

\* the composites, the types with at least one field
Composites == {"VersionMessage", "PingMessage", "PongMessage"}

\* Serializable, dispatched on the static type of the message
Serializable_serialize(self) ==
  CASE self.type = "VersionMessage" -> VersionMessage_serialize(self)
    [] self.type = "VersionAckMessage" -> VersionAckMessage_serialize(self)
    [] self.type \in {"PingMessage", "PongMessage"} ->
         impl_serializable_serialize(self.type, self)

Serializable_serialize_iter(self) ==
  IF self.type \in {"PingMessage", "PongMessage"}
  THEN impl_serializable_serialize_iter(self.type, self)
  ELSE default_serialize_iter(Serializable_serialize(self))

Serializable_deserialize(ty, s) ==
  CASE ty = "VersionMessage" -> VersionMessage_deserialize(s)
    [] ty = "VersionAckMessage" -> VersionAckMessage_deserialize(s)
    [] ty \in {"PingMessage", "PongMessage"} -> impl_serializable_deserialize(ty, s)

(***************************************************************************)
(* The values and payloads the operations are applied to.                  *)
(***************************************************************************)
\* the version payload captured from a peer (version_message_test)
from_sat ==
  << 114, 17, 1, 0, 1, 0, 0, 0, 0, 0, 0, 0, 230, 224, 132, 83, 0, 0, 0, 0,
     1, 0, 0, 0, 0, 0, 0, 0, 0, 0, 0, 0, 0, 0, 0, 0, 0, 0, 255, 255, 0, 0, 0, 0, 0, 0,
     1, 0, 0, 0, 0, 0, 0, 0, 253, 135, 216, 126, 235, 67, 100, 242, 44, 245, 77, 202,
     89, 65, 45, 183, 32, 141,
     71, 217, 32, 207, 252, 232, 62, 232,
     16, 47, 83, 97, 116, 111, 115, 104, 105, 58, 48, 46, 57, 46, 57, 57, 47,
     44, 159, 4, 0, 1 >>

\* "/Satoshi:0.9.99/"
SatoshiAgent == <<47, 83, 97, 116, 111, 115, 104, 105, 58, 48, 46, 57, 46, 57, 57, 47>>

\* 16735069437859780935
SatoshiNonce == <<59454, 59644, 53024, 55623>>

AddrA ==
  [services |-> <<0, 0, 0, 1>>,
   address |-> <<0, 0, 0, 0, 0, 0, 0, 0, 0, 0, 255, 255, 0, 0, 0, 0>>,
   port |-> 0]

AddrB ==
  [services |-> <<0, 0, 0, 1>>,
   address |-> <<253, 135, 216, 126, 235, 67, 100, 242, 44, 245, 77, 202, 89, 65, 45, 183>>,
   port |-> 8333]

Nonces == {<<0, 0, 0, 0>>, <<258, 772, 1286, 1800>>, <<65535, 65535, 65535, 65535>>,
           SatoshiNonce}

VersionValues ==
  { [type |-> "VersionMessage",
     version |-> Limbs(2, v),
     services |-> <<0, 0, 0, 1>>,
     timestamp |-> <<0, 0, 21380, 57574>>,
     receiver |-> AddrA,
     sender |-> AddrB,
     nonce |-> n,
     user_agent |-> ua,
     start_height |-> <<4, 40748>>,
     relay |-> r] :
       v \in {RelayVersion - 1, RelayVersion, RelayVersion + 1},
       n \in {SatoshiNonce, <<0, 0, 0, 1>>},
       ua \in {<<>>, SatoshiAgent},
       r \in BOOLEAN }

Values ==
  VersionValues
    \cup {[type |-> "VersionAckMessage"]}
    \cup {[type |-> t, nonce |-> n] : t \in {"PingMessage", "PongMessage"}, n \in Nonces}

\* the bytes that may follow a message on a stream
ExtraBytes == {0, 1}

\* what the socket's address calls may return
NotConnected == [kind |-> "NotConnected", detail |-> None]
OtherIoError == [kind |-> "OtherIoError", detail |-> None]
AddressResults(ad) == {Ok(ad), Err(NotConnected), Err(OtherIoError)}

Sockets ==
  { [receiver_address |-> ra, sender_address |-> sa,
     services |-> <<0, 0, 0, 1>>, user_agent |-> ua] :
       ra \in AddressResults(AddrA), sa \in AddressResults(AddrB),
       ua \in {<<>>, SatoshiAgent} }

Timestamps == {<<0, 0, 21380, 57574>>, <<65535, 65535, 65535, 65535>>}

NoMsg == [type |-> "none"]
NoLoad == [kind |-> "none", full |-> <<>>]

(***************************************************************************)
(* The state machine: one value a, and one operation sequence applied to   *)
(* it: an eager serialize, decodes from a shared cursor, the draining of a *)
(* lazy producer, or a construction.                                       *)
(***************************************************************************)
Init ==
  /\ a \in Values
  /\ b = NoMsg
  /\ phase = "idle"
  /\ out = [a |-> <<>>, b |-> <<>>]
  /\ stream = <<>>
  /\ loaded = NoLoad
  /\ results = <<>>
  /\ iter = [it |-> default_serialize_iter(<<>>), nones |-> 0]
  /\ drained = <<>>
  /\ created = Ok(NoMsg)
  /\ args = [timestamp |-> <<>>, socket |-> <<>>, nonce |-> <<>>, start_height |-> <<>>]

\* a.serialize() and y.serialize()
Serialize(y) ==
  /\ phase = "idle"
  /\ b' = y
  /\ out' = [a |-> Serializable_serialize(a), b |-> Serializable_serialize(y)]
  /\ phase' = "serialized"
  /\ UNCHANGED <<a, stream, loaded, results, iter, drained, created, args>>

Load(kind, y, bytes) ==
  /\ phase = "idle"
  /\ b' = y
  /\ stream' = bytes
  /\ loaded' = [kind |-> kind, full |-> bytes]
  /\ phase' = "loaded"
  /\ UNCHANGED <<a, out, results, iter, drained, created, args>>

\* the cursor is put on the bytes of a
LoadOne == Load("one", NoMsg, Serializable_serialize(a))

\* ... on the bytes of a followed by the bytes of y
LoadPair(y) == Load("pair", y, Serializable_serialize(a) \o Serializable_serialize(y))

\* ... on a prefix of the bytes of a, strictly shorter than them
LoadPrefix(n) ==
  /\ n < Len(Serializable_serialize(a))
  /\ Load("prefix", NoMsg, SubSeq(Serializable_serialize(a), 1, n))

\* ... on the bytes of a followed by one more byte
LoadExtra(x) == Load("extra", NoMsg, Append(Serializable_serialize(a), x))

\* ... on the captured payload
LoadVector == Load("vector", NoMsg, from_sat)

\* Serializable::deserialize(iter.by_ref()) for the type ty on the shared cursor
Deserialize(ty) ==
  /\ phase = "loaded"
  /\ Len(results) < MaxDecodes
  /\ LET d == Serializable_deserialize(ty, stream)
     IN /\ results' = Append(results, [ty |-> ty, res |-> d.res,
                                       before |-> stream, after |-> d.rest])
        /\ stream' = d.rest
  /\ UNCHANGED <<a, b, phase, out, loaded, iter, drained, created, args>>

\* a.serialize_iter()
SerializeIterStart ==
  /\ phase = "idle"
  /\ iter' = [it |-> Serializable_serialize_iter(a), nones |-> 0]
  /\ drained' = <<>>
  /\ phase' = "iter"
  /\ UNCHANGED <<a, b, out, stream, loaded, results, created, args>>

\* one next() on the lazy producer
SerializeIterNext ==
  /\ phase = "iter"
  /\ iter.nones <= MaxExhaustedCalls
  /\ LET r == SerializeIter_next(iter.it)
     IN /\ iter' = [it |-> r.it, nones |-> IF r.ret.some THEN iter.nones ELSE iter.nones + 1]
        /\ drained' = IF r.ret.some THEN Append(drained, r.ret.v) ELSE drained
  /\ UNCHANGED <<a, b, phase, out, stream, loaded, results, created, args>>

\* VersionMessage::new(timestamp, socket, nonce, start_height)
New(timestamp, socket, nonce, start_height) ==
  /\ phase = "idle"
  /\ created' = VersionMessage_new(timestamp, socket, nonce, start_height)
  /\ args' = [timestamp |-> timestamp, socket |-> socket, nonce |-> nonce,
              start_height |-> start_height]
  /\ phase' = "new"
  /\ UNCHANGED <<a, b, out, stream, loaded, results, iter, drained>>

Next ==
  \/ phase = "idle" /\ \E y \in Values : Serialize(y)
  \/ LoadOne
  \/ phase = "idle" /\ \E y \in Values : LoadPair(y)
  \/ phase = "idle" /\ \E n \in 0..Len(from_sat) : LoadPrefix(n)
  \/ \E x \in ExtraBytes : LoadExtra(x)
  \/ LoadVector
  \/ \E ty \in MessageTypes : Deserialize(ty)
  \/ SerializeIterStart
  \/ SerializeIterNext
  \/ phase = "idle" /\ \E ts \in Timestamps, so \in Sockets, n \in {SatoshiNonce},
                          h \in {<<4, 40748>>, <<65535, 65535>>} :
                         New(ts, so, n, h)

Spec == Init /\ [][Next]_vars

(***************************************************************************)
(* Properties.                                                             *)
(***************************************************************************)
\* the version carries the relay byte on the wire
HasRelay(m) == LimbsGE(m.version, Limbs(2, RelayVersion))

\* the i-th decode on the cursor was made, for the type ty
Decoded(i, ty) == phase = "loaded" /\ Len(results) >= i /\ results[i].ty = ty

\* C1: round-trip law: deserialize on the bytes of serialize(a) succeeds and
\* returns a, for every message type and every value, version messages below
\* 70001 included.
RoundTripLaw ==
  (loaded.kind = "one" /\ Decoded(1, a.type))
    => results[1].res.ok /\ results[1].res.val = a

\* C2: a version payload below 70001 that ends right after start_height
\* decodes successfully, with relay defaulted to true.
LegacyVersionDecodes ==
  (loaded.kind = "one" /\ a.type = "VersionMessage" /\ ~HasRelay(a)
     /\ Decoded(1, "VersionMessage"))
    => results[1].res.ok /\ results[1].res.val.relay = TRUE

\* C3: VersionMessage::serialize emits version, services, timestamp, receiver,
\* sender, nonce, user_agent, start_height back to back in that order, then
\* the relay byte iff version >= 70001; two values below 70001 that differ
\* only in relay have the same bytes, and 70000 encodes one byte shorter than
\* 70001 for otherwise equal fields.
VersionSerializeLayout ==
  (phase = "serialized" /\ a.type = "VersionMessage") =>
    LET e == out.a
        u == Len(a.user_agent) + 1
    IN /\ Len(e) = 84 + u + (IF HasRelay(a) THEN 1 ELSE 0)
       /\ SubSeq(e, 1, 4) = IntSerialize(a.version)
       /\ SubSeq(e, 5, 12) = IntSerialize(a.services)
       /\ SubSeq(e, 13, 20) = IntSerialize(a.timestamp)
       /\ SubSeq(e, 21, 46) = AddressSerialize(a.receiver)
       /\ SubSeq(e, 47, 72) = AddressSerialize(a.sender)
       /\ SubSeq(e, 73, 80) = IntSerialize(a.nonce)
       /\ SubSeq(e, 81, 80 + u) = StringSerialize(a.user_agent)
       /\ SubSeq(e, 81 + u, 84 + u) = IntSerialize(a.start_height)
       /\ HasRelay(a) => e[85 + u] = (IF a.relay THEN 1 ELSE 0)
       /\ (b.type = "VersionMessage" /\ ~HasRelay(a) /\ [b EXCEPT !.relay = a.relay] = a)
            => out.b = out.a
       /\ (b.type = "VersionMessage" /\ a.version = Limbs(2, 70000)
             /\ b.version = Limbs(2, 70001) /\ [b EXCEPT !.version = a.version] = a)
            => /\ Len(out.b) = Len(out.a) + 1
               /\ SubSeq(out.b, 5, Len(out.a)) = SubSeq(out.a, 5, Len(out.a))

VersionSerializeLayoutWitness ==
  /\ phase = "serialized"
  /\ a.type = "VersionMessage" /\ a.version = Limbs(2, 70000)
  /\ b.type = "VersionMessage" /\ b.relay # a.relay
  /\ [b EXCEPT !.relay = a.relay] = a
  /\ out.a = out.b

\* C4: for every payload that VersionMessage::deserialize accepts, serialize
\* of the decoded value is the payload, byte for byte.
ReencodeByteExact ==
  (Decoded(1, "VersionMessage") /\ results[1].res.ok /\ results[1].after = <<>>)
    => VersionMessage_serialize(results[1].res.val) = loaded.full

\* the declared fields of a composite
DeclaredFields(ty) == IF ty = "VersionMessage" THEN VersionFields ELSE StructFields(ty)

\* the field of self that holds byte n + 1 of its encoding
RECURSIVE FieldBeingRead(_, _, _)
FieldBeingRead(fields, self, n) ==
  LET len == Len(PrimSerialize(Head(fields).ty, self[Head(fields).name]))
  IN IF n < len THEN Head(fields).name
     ELSE FieldBeingRead(Tail(fields), self, n - len)

\* C5: deserialize on a strict prefix of the encoding of a composite returns
\* an error, and the error names the field that was being read when the
\* stream ran out.
TruncationNamesField ==
  (loaded.kind = "prefix" /\ a.type \in Composites /\ Decoded(1, a.type))
    => /\ ~results[1].res.ok
       /\ results[1].res.err.detail.some
       /\ results[1].res.err.detail.v =
            <<FieldBeingRead(DeclaredFields(a.type), a, Len(loaded.full))>>

\* C6: the bytes drawn from serialize_iter(a) are, in order, the bytes of
\* serialize(a); the producer returns None exactly when all of them were
\* drawn, and keeps returning None.
LazyEagerEquivalence ==
  phase = "iter" =>
    LET e == Serializable_serialize(a)
    IN /\ Len(drained) <= Len(e)
       /\ drained = SubSeq(e, 1, Len(drained))
       /\ iter.nones >= 1 => drained = e
       /\ (iter.nones = 0 /\ drained = e) => ~SerializeIter_next(iter.it).ret.some

LazyEagerEquivalenceWitness ==
  /\ phase = "iter"
  /\ a.type = "PingMessage" /\ a.nonce = SatoshiNonce
  /\ iter.nones >= 1
  /\ Len(drained) = 8

\* C7: VersionAckMessage::serialize returns no byte, and
\* VersionAckMessage::deserialize succeeds on any stream and leaves it as it
\* was.
EmptyMessage ==
  /\ (phase = "serialized" /\ a.type = "VersionAckMessage") => out.a = <<>>
  /\ \A i \in 1..Len(results) :
       results[i].ty = "VersionAckMessage"
         => /\ results[i].res = Ok([type |-> "VersionAckMessage"])
            /\ results[i].after = results[i].before
            /\ (i = Len(results) => stream = results[i].before)

EmptyMessageWitness ==
  /\ Decoded(2, "VersionAckMessage")
  /\ results[1].ty = "VersionAckMessage"
  /\ results[2].before # <<>>
  /\ stream = loaded.full

\* C8: a ping or a pong decoded from its own bytes has the nonce it was
\* serialized with, and a ping and a pong with the same nonce have the same
\* bytes.
PingPongSymmetry ==
  /\ (loaded.kind = "one" /\ a.type \in {"PingMessage", "PongMessage"}
        /\ Decoded(1, a.type))
       => /\ results[1].res.ok
          /\ results[1].res.val.type = a.type
          /\ results[1].res.val.nonce = a.nonce
  /\ (phase = "serialized" /\ a.type = "PingMessage" /\ b.type = "PongMessage"
        /\ a.nonce = b.nonce)
       => out.a = out.b /\ Len(out.a) = 8

PingPongSymmetryWitness ==
  /\ loaded.kind = "one" /\ a.type = "PongMessage" /\ Decoded(1, "PongMessage")
  /\ a.nonce = <<258, 772, 1286, 1800>>
  /\ loaded.full = <<8, 7, 6, 5, 4, 3, 2, 1>>
  /\ results[1].res.ok

\* C9: two decodes in a row on serialize(a) ++ serialize(b) yield a, then b,
\* each consuming exactly its own bytes, and leave the cursor exhausted, for
\* pings, pongs and version messages of every version.
CursorDiscipline ==
  (loaded.kind = "pair" /\ a.type \in Composites /\ b.type \in Composites
     /\ Decoded(1, a.type) /\ Decoded(2, b.type))
    => /\ results[1].res = Ok(a)
       /\ results[1].after = Serializable_serialize(b)
       /\ results[2].res = Ok(b)
       /\ stream = <<>>

\* C10: VersionMessage::new fails iff one of the two address calls fails,
\* with that call's error unchanged (the receiver's when both fail); else it
\* returns a message with the given timestamp, nonce and start_height, the
\* two addresses, the protocol version and relay = false.
NewContract ==
  phase = "new" =>
    LET ra == args.socket.receiver_address
        sa == args.socket.sender_address
    IN /\ created.ok <=> (ra.ok /\ sa.ok)
       /\ ~ra.ok => created = Err(ra.err)
       /\ (ra.ok /\ ~sa.ok) => created = Err(sa.err)
       /\ created.ok =>
            /\ created.val.timestamp = args.timestamp
            /\ created.val.nonce = args.nonce
            /\ created.val.start_height = args.start_height
            /\ created.val.receiver = ra.val
            /\ created.val.sender = sa.val
            /\ created.val.version = Limbs(2, PROTOCOL_VERSION)
            /\ created.val.relay = FALSE

NewContractWitness ==
  /\ phase = "new"
  /\ ~args.socket.receiver_address.ok /\ ~args.socket.sender_address.ok
  /\ args.socket.receiver_address.err # args.socket.sender_address.err
  /\ created = Err(args.socket.receiver_address.err)

====
